---- MODULE Spec2Model ----
(***************************************************************************)
(* Model of the extraction pipeline of src/Ollama: merge_page_results,     *)
(* extract_structured_data_with_ollama, call_ollama_vision and process_pdf *)
(* of processor.py, and the /extract and model routes of app.py.           *)
(*                                                                         *)
(* Python values are tagged records: [py |-> "None"], [py |-> "str", ...], *)
(* [py |-> "int", ...], [py |-> "list"], and [py |-> "dict", d |-> f]      *)
(* where f is a function from the dict's keys to values.                   *)
(***************************************************************************)
EXTENDS Integers, Sequences, FiniteSets, TLC

VARIABLES
    fields_to_extract,   \* the schema: a function field key -> description
    document_content,    \* what process_document returned
    responses,           \* outcome of each call_ollama_vision made so far
    page_extractions,    \* the list of decoded page results
    merged,              \* outcome of the merge_page_results call, if made
    caught,              \* the exception the top-level handler caught, if any
    result,              \* what extract_structured_data_with_ollama returned
    calls,               \* the images of each call_ollama_vision made so far
    server,              \* the Ollama server a call of call_ollama_vision meets
    sent,                \* the HTTP requests that call has sent so far
    call_outcome,        \* what that call returned or raised
    environ,             \* os.environ of the server process
    disk,                \* the files under temp_uploads: path -> content
    loader,              \* the locals of a call of process_pdf
    handlers,            \* the /extract requests being handled
    pc                   \* position of the request

vars == <<fields_to_extract, document_content, responses, page_extractions,
          merged, caught, result, calls, server, sent, call_outcome,
          environ, disk, loader, handlers, pc>>

----------------------------------------------------------------------------
(* Bounds *)

\* most pages handed to merge_page_results in SpecMerge
MaxMergePages == 2

\* most pages of a document in Spec
MaxPages == 3

----------------------------------------------------------------------------
(* Python values *)

PyNone == [py |-> "None"]
Str(s) == [py |-> "str", s |-> s]
Num(n) == [py |-> "int", n |-> n]
\* the empty list
PyList == [py |-> "list"]
PyDict(f) == [py |-> "dict", d |-> f]
EmptyDict == PyDict(<<>>)
\* an f-string: the concatenation of its parts
Fmt(parts) == [py |-> "fstr", parts |-> parts]

IsDict(v) == v.py = "dict"

\* v.get(k, dflt) on a dict v
Get(v, k, dflt) == IF k \in DOMAIN v.d THEN v.d[k] ELSE dflt

\* what v.get raises when v is no dict
AttributeError(v) ==
    CASE v.py = "None" -> Str("'NoneType' object has no attribute 'get'")
      [] v.py = "str"  -> Str("'str' object has no attribute 'get'")
      [] v.py = "int"  -> Str("'int' object has no attribute 'get'")
      [] v.py = "list" -> Str("'list' object has no attribute 'get'")

\* bool(v)
Truthy(v) ==
    CASE v.py = "None" -> FALSE
      [] v.py = "str"  -> v.s # ""
      [] v.py = "fstr" -> TRUE
      [] v.py = "int"  -> v.n # 0
      [] v.py = "list" -> FALSE
      [] v.py = "dict" -> DOMAIN v.d # {}

\* s.lower() on the strings of the model
Lower(s) ==
    CASE s = "NULL"      -> "null"
      [] s = "Null"      -> "null"
      [] s = "None"      -> "none"
      [] s = "NONE"      -> "none"
      [] s = "Not Found" -> "not found"
      [] s = "NOT FOUND" -> "not found"
      [] OTHER           -> s

\* str(v)
PyStr(v) ==
    CASE v.py = "None" -> "None"
      [] v.py = "str"  -> v.s
      [] v.py = "int"  -> ToString(v.n)
      [] v.py = "list" -> "[]"
      [] v.py = "dict" -> "{...}"

\* int(a / b) for b > 0: true division, then truncation toward zero
IntOfQuotient(a, b) == IF a >= 0 THEN a \div b ELSE -((-a) \div b)

RECURSIVE SumOver(_, _)
SumOver(f, S) ==
    IF S = {} THEN 0
    ELSE LET k == CHOOSE x \in S : TRUE
         IN  f[k].n + SumOver(f, S \ {k})

----------------------------------------------------------------------------
(* merge_page_results *)

\* isinstance(field_data, dict) and "value" in field_data
IsScored(field_data) == IsDict(field_data) /\ "value" \in DOMAIN field_data.d

FieldValue(field_data) ==
    IF IsScored(field_data) THEN Get(field_data, "value", PyNone) ELSE field_data

FieldConfidence(field_data, page_confidence) ==
    IF IsScored(field_data) THEN Get(field_data, "confidence", Num(0))
    ELSE page_confidence

\* the test that lets a value through ("skip null/empty values")
IsFound(value) ==
    /\ Truthy(value)
    /\ value # Str("null")
    /\ Lower(PyStr(value)) \notin {"not found", "none"}

\* Adopts with >= in place of >: a later page of equal confidence wins
AdoptsOrEqual(field_key, confidence, merged_data, field_confidences) ==
    \/ field_key \notin DOMAIN merged_data
    \/ confidence.n >= Get(PyDict(field_confidences), field_key, Num(0)).n

\* "use this value if it's the first one or has higher confidence"
Adopts(field_key, confidence, merged_data, field_confidences) ==
    \/ field_key \notin DOMAIN merged_data
    \/ confidence.n > Get(PyDict(field_confidences), field_key, Num(0)).n

\* one iteration of the loop over page_extractions
MergePage(acc, page_result, keys) ==
    IF ~acc.ok THEN acc
    ELSE IF ~IsDict(page_result)
    THEN [ok |-> FALSE, exc |-> AttributeError(page_result)]
    ELSE
    LET extraction_results == Get(page_result, "extraction_results", EmptyDict)
    IN
    IF ~IsDict(extraction_results)
    THEN [ok |-> FALSE, exc |-> AttributeError(extraction_results)]
    ELSE
    LET page_data       == Get(extraction_results, "data", EmptyDict)
        page_confidence == Get(extraction_results, "confidence_score", Num(0))
        page_reasoning  == Get(extraction_results, "reasoning", Str(""))
    IN
    IF keys # {} /\ ~IsDict(page_data)
    THEN [ok |-> FALSE, exc |-> AttributeError(page_data)]
    ELSE
    LET value(k)      == FieldValue(Get(page_data, k, PyNone))
        confidence(k) == FieldConfidence(Get(page_data, k, PyNone),
                                         page_confidence)
        taken == {k \in keys :
                     /\ IsFound(value(k))
                     /\ Adopts(k, confidence(k), acc.merged_data,
                               acc.field_confidences)}
    IN [ok |-> TRUE,
        merged_data |->
            [k \in DOMAIN acc.merged_data \cup taken |->
                IF k \in taken THEN value(k) ELSE acc.merged_data[k]],
        field_confidences |->
            [k \in DOMAIN acc.field_confidences \cup taken |->
                IF k \in taken THEN confidence(k)
                ELSE acc.field_confidences[k]],
        all_reasonings |->
            IF Truthy(page_reasoning)
            THEN acc.all_reasonings \cup {page_reasoning}
            ELSE acc.all_reasonings]

RECURSIVE MergeScan(_, _, _)
MergeScan(acc, pages, keys) ==
    IF pages = <<>> THEN acc
    ELSE MergeScan(MergePage(acc, Head(pages), keys), Tail(pages), keys)

\* FillMissing without the fill
FillMissingNone(merged_data, keys) == merged_data

\* "fill in missing fields with null"
FillMissing(merged_data, keys) ==
    [k \in DOMAIN merged_data \cup keys |->
        IF k \in DOMAIN merged_data THEN merged_data[k] ELSE PyNone]

\* AverageConfidence dividing by the number of schema fields
AverageOverSchema(field_confidences, keys) ==
    IF DOMAIN field_confidences # {}
    THEN IntOfQuotient(SumOver(field_confidences, DOMAIN field_confidences),
                       Cardinality(keys))
    ELSE 0

\* int(avg_confidence)
AverageConfidence(field_confidences, keys) ==
    IF DOMAIN field_confidences # {}
    THEN IntOfQuotient(SumOver(field_confidences, DOMAIN field_confidences),
                       Cardinality(DOMAIN field_confidences))
    ELSE 0

\* AdditionalRequestResult taking the answer of the last page
AnswerOfLastPage(pages) ==
    Get(Get(pages[Len(pages)], "extraction_results", EmptyDict),
        "additional_request_result", PyNone)

\* line 168: the answer to the additional request, page_extractions[0]'s
AdditionalRequestResult(pages) ==
    Get(Get(pages[1], "extraction_results", EmptyDict),
        "additional_request_result", PyNone)

merge_page_results(pages, fields) ==
    LET keys == DOMAIN fields
        acc  == MergeScan([ok |-> TRUE, merged_data |-> <<>>,
                           field_confidences |-> <<>>,
                           all_reasonings |-> {}],
                          pages, keys)
    IN
    IF ~acc.ok THEN acc
    ELSE IF pages = <<>>
    THEN [ok |-> FALSE, exc |-> Str("list index out of range")]
    ELSE
    [ok |-> TRUE,
     field_confidences |-> acc.field_confidences,
     value |-> PyDict(
        [extraction_results |-> PyDict(
            [confidence_score |->
                 Num(AverageConfidence(acc.field_confidences, keys)),
             reasoning |->
                 Fmt(<<"Merged from ", Len(pages), " pages: ",
                       IF acc.all_reasonings # {} THEN acc.all_reasonings
                       ELSE {Str("Multi-page extraction")}>>),
             data |-> PyDict(FillMissing(acc.merged_data, keys)),
             additional_request_result |->
                 AdditionalRequestResult(pages)])])]

----------------------------------------------------------------------------
(* Inputs *)

Schemas ==
    { [k \in {"invoice_id"} |-> "the invoice number"],
      [k \in {"invoice_id", "total"} |-> "a description"] }

Scored(s, c) == PyDict([value |-> Str(s), confidence |-> Num(c)])

Missing == [py |-> "missing"]

\* what a page can say about invoice_id
InvoiceIdData ==
    { Missing, Str("INV-1"),
      Scored("INV-1", 40), Scored("INV-2", 40), Scored("INV-2", 90),
      Scored("", 90), Scored("null", 90), Scored("NULL", 90),
      Scored("Not Found", 90) }

\* what a page can say about total
TotalData == { Missing, Scored("100", 45), Scored("250", 90) }

PageData(a, b) ==
    PyDict([k \in {x \in {"invoice_id"} : a # Missing}
                  \cup {x \in {"total"} : b # Missing} |->
               IF k = "invoice_id" THEN a ELSE b])

Envelope(data, score) ==
    PyDict([extraction_results |-> PyDict(
        [k \in {"data", "reasoning"}
               \cup {x \in {"confidence_score"} : score # Missing} |->
            CASE k = "data" -> data
              [] k = "reasoning" -> Str("clear scan")
              [] k = "confidence_score" -> score])])

\* page results handed to merge_page_results
MergeInputs ==
    { Envelope(PageData(a, b), s) :
          a \in InvoiceIdData, b \in TotalData, s \in {Missing, Num(60)} }
    \cup { PyList,
           PyDict([extraction_results |-> Str("n/a")]),
           PyDict([extraction_results |-> PyDict([data |-> PyNone])]) }

----------------------------------------------------------------------------
(* SpecMerge: merge_page_results applied to bounded inputs *)

NoOutcome == [ok |-> FALSE, exc |-> Str("not called")]
NoServer == [model |-> "none"]
NoLoader == [pc |-> "none"]
NoException == [py |-> "no exception"]

InitMerge ==
    /\ fields_to_extract \in Schemas
    /\ document_content = PyNone
    /\ responses = <<>>
    /\ page_extractions = <<>>
    /\ merged = NoOutcome
    /\ caught = NoException
    /\ result = PyNone
    /\ calls = <<>>
    /\ server = NoServer
    /\ sent = <<>>
    /\ call_outcome = NoOutcome
    /\ environ = <<>>
    /\ disk = <<>>
    /\ loader = NoLoader
    /\ handlers = <<>>
    /\ pc = "collect"

AddPage ==
    /\ pc = "collect"
    /\ Len(page_extractions) < MaxMergePages
    /\ \E p \in MergeInputs : page_extractions' = Append(page_extractions, p)
    /\ UNCHANGED <<environ, disk, loader, handlers,
                   calls, server, sent, call_outcome,
                   fields_to_extract, document_content, responses, merged,
                   caught, result, pc>>

Merge ==
    /\ pc = "collect"
    /\ page_extractions # <<>>
    /\ merged' = merge_page_results(page_extractions, fields_to_extract)
    /\ pc' = IF merged'.ok THEN "merged" ELSE "raised"
    /\ UNCHANGED <<environ, disk, loader, handlers,
                   calls, server, sent, call_outcome,
                   fields_to_extract, document_content, responses,
                   page_extractions, caught, result>>

NextMerge == AddPage \/ Merge

SpecMerge == InitMerge /\ [][NextMerge]_vars

----------------------------------------------------------------------------
(* Model responses as text: a sequence of tokens, each a stretch of prose *)
(* without braces or the serialisation of one JSON value.                *)

\* a stretch of prose of n characters
ProseOf(n) == [tok |-> "prose", chars |-> n]
Prose == ProseOf(24)
LongProse == ProseOf(260)
Json(v) == [tok |-> "json", v |-> v]

json_dumps(v) == <<Json(v)>>

\* json.loads: the text must be exactly one JSON value
json_loads(text) ==
    IF Len(text) = 1 /\ text[1].tok = "json"
    THEN [ok |-> TRUE, value |-> text[1].v]
    ELSE [ok |-> FALSE, exc |-> Str("JSONDecodeError")]

\* re.search(r'\{.*\}', response, re.DOTALL): from the first "{" to the
\* last "}"; in this text model the braces are those of the dict tokens
BraceTokens(text) ==
    {i \in 1..Len(text) : text[i].tok = "json" /\ text[i].v.py = "dict"}

Least(S) == CHOOSE i \in S : \A j \in S : i <= j
Greatest(S) == CHOOSE i \in S : \A j \in S : j <= i

\* len(json.dumps(v))
RECURSIVE JsonChars(_)
JsonChars(v) ==
    CASE v.py = "None" -> 4
      [] v.py = "str"  -> Len(v.s) + 2
      [] v.py = "int"  -> IF v.n < 10 THEN 1 ELSE IF v.n < 100 THEN 2 ELSE 3
      [] v.py = "list" -> 2
      [] v.py = "dict" ->
             LET item == [k \in DOMAIN v.d |-> Num(Len(k) + 6 + JsonChars(v.d[k]))]
             IN  IF DOMAIN v.d = {} THEN 2 ELSE SumOver(item, DOMAIN v.d)

\* len() of one token of a text
TokenChars(t) == IF t.tok = "json" THEN JsonChars(t.v) ELSE t.chars

\* text[:n]; a token that does not fit is cut to the characters left
RECURSIVE Slice(_, _)
Slice(text, n) ==
    IF text = <<>> \/ n = 0 THEN <<>>
    ELSE IF TokenChars(Head(text)) <= n
    THEN <<Head(text)>> \o Slice(Tail(text), n - TokenChars(Head(text)))
    ELSE <<[tok |-> "cut", of |-> Head(text), chars |-> n]>>

\* the longest excerpt of a response quoted in an error message
RawExcerptLen == 200

\* RawExcerpt quoting the whole response
RawWhole(response) == response

\* response[:200]
RawExcerpt(response) == Slice(response, RawExcerptLen)

\* ParseResponse without the second attempt on the brace-delimited substring
ParseWholeOnly(response) ==
    IF json_loads(response).ok THEN json_loads(response)
    ELSE [ok |-> FALSE,
          exc |-> Fmt(<<"No JSON found in response. Raw: ",
                        RawExcerpt(response)>>)]

\* lines 285-302: decode, or decode the brace-delimited substring
ParseResponse(response) ==
    LET direct == json_loads(response)
        braces == BraceTokens(response)
    IN
    IF direct.ok THEN direct
    ELSE IF braces = {}
    THEN [ok |-> FALSE,
          exc |-> Fmt(<<"No JSON found in response. Raw: ",
                        RawExcerpt(response)>>)]
    ELSE LET inner ==
                 json_loads(SubSeq(response, Least(braces), Greatest(braces)))
         IN  IF inner.ok THEN inner
             ELSE [ok |-> FALSE,
                   exc |-> Fmt(<<"Could not parse JSON response. Raw: ",
                                 RawExcerpt(response)>>)]

----------------------------------------------------------------------------
(* The Ollama server as call_ollama_vision meets it: the configured model,  *)
(* the answers to the two metadata requests and to the generate request.    *)

\* a JSON list, as the set of its items
ListOf(S) == [py |-> "list", items |-> S]

\* a request that raises requests.exceptions.ConnectionError
Unreachable == [kind |-> "unreachable"]
\* a request that raises requests.exceptions.Timeout
TimedOut == [kind |-> "timeout"]
\* an answer with an error status; body is response.text
HttpError(status, body) == [kind |-> "http", status |-> status, body |-> body]
\* the answer of /api/generate with status 200 and this response text
Reply(text) == [kind |-> "ok", response |-> text]

\* /api/show with status 200: details.families and whether projector_info
\* is a key of the answer
ShowOk(families, projector_info) ==
    [kind |-> "http", status |-> 200, families |-> families,
     projector_info |-> projector_info]

\* /api/tags with status 200: the set of the installed models' entries
TagsOk(models) == [kind |-> "http", status |-> 200, models |-> models]
Entry(name, family, families) ==
    [name |-> name, family |-> family, families |-> families]

\* line 488
vision_families == {"mllama", "llava", "bakllava", "gemma3", "gemma2"}

\* line 494: any(keyword in model_lower for keyword in ['vision', 'llava',
\* 'bakllava']), on the model names of the model
HasVisionKeyword(model_name) ==
    Lower(model_name) \in {"llama3.2-vision", "llava:7b", "bakllava"}

\* lines 451-465: /api/show settles the question, by a marker (TRUE) or by
\* raising ('clip' in None)
ShowSettles(show) ==
    /\ show.kind = "http"
    /\ show.status = 200
    /\ \/ show.families = PyNone
       \/ "clip" \in show.families.items
       \/ show.projector_info

\* lines 440-511; every exception ends in "return True"
is_vision_model(model_name, srv) ==
    IF srv.show.kind # "http" THEN TRUE
    ELSE IF ShowSettles(srv.show) THEN TRUE
    ELSE IF srv.tags.kind # "http" THEN TRUE
    ELSE IF srv.tags.status # 200 THEN TRUE
    ELSE IF \A m \in srv.tags.models : m.name # model_name THEN TRUE
    ELSE LET m == CHOOSE x \in srv.tags.models : x.name = model_name
         IN  IF m.families = PyNone THEN TRUE
             ELSE IF "clip" \in m.families.items THEN TRUE
             ELSE IF \/ Lower(m.family) \in vision_families
                     \/ m.families.items \cap vision_families # {}
             THEN TRUE
             ELSE IF HasVisionKeyword(model_name) THEN TRUE
             ELSE FALSE

\* the requests is_vision_model sends, in order
ProbeRequests(model_name, srv) ==
    IF srv.show.kind # "http" \/ ShowSettles(srv.show)
    THEN <<[url |-> "/api/show", name |-> model_name]>>
    ELSE <<[url |-> "/api/show", name |-> model_name], [url |-> "/api/tags"]>>

\* lines 383-403: the generate request
GenerateRequest(model, images) ==
    [url |-> "/api/generate", model |-> model, images |-> images]

----------------------------------------------------------------------------
(* call_ollama_vision *)

\* NotVisionError without the model's name
NotVisionErrorUnnamed(model) ==
    Str("Model does not support vision/image input.")

\* lines 381 and 429, without the cross mark the message opens with
NotVisionError(model) ==
    Fmt(<<"Model '", model,
          "' does not support vision/image input. Please select a vision-capable model like: llama3.2-vision, llava, or bakllava.">>)

\* line 428: 'does not support images' in error_body or 'vision' in
\* error_body, on the bodies of the model
MentionsVision(body) ==
    Lower(body) \in {"this model does not support images"}

\* str(e) of the exception the requests library raised, re-raised by the
\* bare "raise" of line 435
RequestsError(reply) ==
    IF reply.kind = "unreachable"
    THEN Str("HTTPConnectionPool(host='localhost', port=11434): Max retries exceeded with url: /api/generate")
    ELSE Fmt(<<reply.status, " Server Error for url: http://localhost:11434/api/generate">>)

\* ResponseText handing an empty text on as it is
TextAsReceived(response_text) == response_text

\* lines 406-413: an empty response text is returned as "{}"
ResponseText(response_text) ==
    IF response_text = <<>> THEN json_dumps(EmptyDict) ELSE response_text

\* lines 398-438: what the call makes of the answer to the generate request
AfterGenerate(model, reply) ==
    CASE reply.kind = "timeout" ->
             [ok |-> FALSE,
              exc |-> Str("Ollama request timed out. Try with a smaller document or faster model.")]
      [] reply.kind = "unreachable" ->
             [ok |-> FALSE, exc |-> RequestsError(reply)]
      [] reply.kind = "http" ->
             [ok |-> FALSE,
              exc |->
                CASE reply.status = 400 /\ MentionsVision(reply.body) ->
                         NotVisionError(model)
                  [] reply.status = 400 /\ ~MentionsVision(reply.body) ->
                         Str("Bad Request to Ollama. Possible causes: image too large, too many images, or invalid format. Try with a smaller/simpler document.")
                  [] reply.status = 413 ->
                         Str("Payload too large for Ollama. The document images are too big. Try with a smaller document.")
                  [] reply.status = 500 ->
                         Str("Ollama internal error. The model might have crashed. Try restarting Ollama: ollama serve")
                  [] OTHER -> RequestsError(reply)]
      [] reply.kind = "ok" ->
             [ok |-> TRUE, value |-> ResponseText(reply.response)]

\* lines 370-438
call_ollama_vision(srv) ==
    IF ~is_vision_model(srv.model, srv)
    THEN [ok |-> FALSE, exc |-> NotVisionError(srv.model)]
    ELSE AfterGenerate(srv.model, srv.generate)

\* line 15: the model when OLLAMA_MODEL is not set
DefaultModel == "llama3.2-vision"

\* a server with the default model installed that answers the generate
\* request with reply
Serving(reply) ==
    [model |-> DefaultModel,
     show |-> ShowOk(ListOf({"mllama", "clip"}), TRUE),
     tags |-> TagsOk({Entry(DefaultModel, "mllama",
                            ListOf({"mllama", "clip"}))}),
     generate |-> reply]

----------------------------------------------------------------------------
(* extract_structured_data_with_ollama *)

SetKey(v, k, x) ==
    PyDict([y \in DOMAIN v.d \cup {k} |-> IF y = k THEN x ELSE v.d[y]])

\* "extraction_results" not in result
LacksEnvelope(res) ==
    CASE res.py = "dict" -> "extraction_results" \notin DOMAIN res.d
      [] res.py = "list" -> TRUE
      [] res.py = "str"  -> TRUE

\* lines 304-314
ValidateStructure(res) ==
    IF res.py \in {"None", "int"}
    THEN [ok |-> FALSE, exc |-> Str("argument of type 'NoneType' is not iterable")]
    ELSE IF LacksEnvelope(res)
    THEN [ok |-> TRUE,
          value |-> PyDict([extraction_results |-> PyDict(
              [overall_confidence |-> Num(0),
               reasoning |-> Str("Response format was unexpected"),
               data |-> IF IsDict(res) THEN res ELSE EmptyDict,
               additional_request_result |-> PyNone])])]
    ELSE [ok |-> TRUE, value |-> res]

\* lines 328-340: the confidence one field contributes
ResolvedConfidence(field_data) ==
    IF IsScored(field_data) THEN Get(field_data, "confidence", Num(0)).n
    ELSE 50

RECURSIVE SumResolved(_, _)
SumResolved(data, S) ==
    IF S = {} THEN 0
    ELSE LET k == CHOOSE x \in S : TRUE
         IN  ResolvedConfidence(Get(data, k, PyNone))
                 + SumResolved(data, S \ {k})

\* Normalise returning the validated result as it is
Unnormalised(res, keys) == [ok |-> TRUE, value |-> res]

\* lines 316-353
Normalise(res, keys) ==
    LET extraction_results == Get(res, "extraction_results", EmptyDict)
    IN
    IF ~IsDict(extraction_results)
    THEN [ok |-> FALSE, exc |-> AttributeError(extraction_results)]
    ELSE
    LET data == Get(extraction_results, "data", EmptyDict)
    IN
    IF keys # {} /\ ~IsDict(data)
    THEN [ok |-> FALSE, exc |-> AttributeError(data)]
    ELSE
    LET processed_data ==
            [k \in keys |-> FieldValue(Get(data, k, PyNone))]
        overall_confidence ==
            IF keys # {}
            THEN IntOfQuotient(SumResolved(data, keys), Cardinality(keys))
            ELSE 0
        with_overall ==
            IF "overall_confidence" \notin DOMAIN extraction_results.d
            THEN SetKey(extraction_results, "overall_confidence",
                        Num(overall_confidence))
            ELSE extraction_results
        with_score ==
            SetKey(with_overall, "confidence_score",
                   Get(with_overall, "overall_confidence",
                       Num(overall_confidence)))
    IN [ok |-> TRUE,
        value |-> SetKey(res, "extraction_results",
                         SetKey(with_score, "data", PyDict(processed_data)))]

\* lines 285-353: from the response text to the returned result
ParseAndNormalise(response, keys) ==
    LET parsed == ParseResponse(response)
    IN  IF ~parsed.ok THEN parsed
        ELSE LET valid == ValidateStructure(parsed.value)
             IN  IF ~valid.ok THEN valid
                 ELSE Normalise(valid.value, keys)

\* DegradedResult without the record
ErrorOnly(e, keys) ==
    PyDict([error |-> Fmt(<<"Error calling Ollama: ", e>>)])

\* lines 355-367: the result returned for a caught exception
DegradedResult(e, keys) ==
    PyDict([error |-> Fmt(<<"Error calling Ollama: ", e>>),
            extraction_results |-> PyDict(
                [confidence_score |-> Num(0),
                 reasoning |-> Fmt(<<"Error: ", e>>),
                 data |-> PyDict([k \in keys |-> PyNone]),
                 additional_request_result |-> PyNone])])

\* AfterPage keeping a None entry for a page that failed
KeepFailedPage(pages, reply) ==
    LET called == call_ollama_vision(Serving(reply))
    IN  IF called.ok /\ json_loads(called.value).ok
        THEN Append(pages, json_loads(called.value).value)
        ELSE Append(pages, PyNone)

\* lines 263-275: the page list after one page's call; a failed call or an
\* undecodable response leaves it as it is
AfterPage(pages, reply) ==
    LET called == call_ollama_vision(Serving(reply))
    IN  IF called.ok /\ json_loads(called.value).ok
        THEN Append(pages, json_loads(called.value).value)
        ELSE pages

\* NoPageSucceeded without the test
NeverEmpty(pages) == FALSE

\* line 277: "if not page_extractions"
NoPageSucceeded(pages) == pages = <<>>

----------------------------------------------------------------------------
(* Inputs of Spec *)

InvoicePage(s, c) ==
    Reply(json_dumps(Envelope(PageData(Scored(s, c), Missing), Missing)))

\* a response that also states an overall confidence of its own
AssertedPage(s, c, overall) ==
    LET page == Envelope(PageData(Scored(s, c), Missing), Missing)
    IN  Reply(json_dumps(PyDict([extraction_results |->
            SetKey(page.d.extraction_results, "overall_confidence",
                   Num(overall))])))

\* a response that answers the additional request
AnsweringPage(s, c, answer) ==
    LET page == Envelope(PageData(Scored(s, c), Missing), Missing)
    IN  Reply(json_dumps(PyDict([extraction_results |->
            SetKey(page.d.extraction_results, "additional_request_result",
                   Str(answer))])))

\* a response whose data holds invoice_id and total, whatever the schema
TwoFieldPage ==
    Reply(json_dumps(Envelope(PageData(Scored("INV-1", 40),
                                       Scored("100", 45)), Missing)))

ServerReplies ==
    { TimedOut,
      AnsweringPage("INV-1", 40, "paid"), AnsweringPage("INV-2", 90, "unpaid"),
      InvoicePage("INV-1", 40), InvoicePage("INV-2", 90), InvoicePage("", 0),
      Reply(<<>>),
      Reply(<<Prose>>),
      Reply(<<Prose,
              Json(Envelope(PageData(Scored("INV-1", 40), Missing), Missing)),
              Prose>>),
      Reply(json_dumps(PyList)),
      Reply(json_dumps(PyNone)),
      Reply(json_dumps(PyDict([extraction_results |-> Str("n/a")]))),
      Reply(<<LongProse>>),
      Reply(<<Json(EmptyDict), Prose,
              Json(Envelope(PageData(Scored("INV-1", 40), Missing), Missing))>>),
      InvoicePage("INV-1", 150),
      AssertedPage("INV-1", 40, 77),
      TwoFieldPage }

Documents ==
    { [type |-> "image", data |-> "image"] }
    \cup { [type |-> "pdf", pages |-> [i \in 1..n |-> i]] : n \in 0..MaxPages }

IsMultiPage == document_content.type = "pdf" /\ Len(document_content.pages) # 1

\* lines 246 and 255: the images argument of the one call of the
\* single-page flow
SingleImage(document) ==
    IF document.type = "image" THEN <<document.data>>
    ELSE <<document.pages[1]>>

\* PageImage sending every page of the document with each call
AllPageImages(document, i) == document.pages

\* lines 261-265: the images argument of the call for page i, [page_image]
PageImage(document, i) == <<document.pages[i]>>

----------------------------------------------------------------------------
(* Spec: one call of extract_structured_data_with_ollama *)

Init ==
    /\ fields_to_extract \in Schemas \cup {<<>>}
    /\ document_content \in Documents
    /\ responses = <<>>
    /\ page_extractions = <<>>
    /\ merged = NoOutcome
    /\ caught = NoException
    /\ result = PyNone
    /\ calls = <<>>
    /\ server = NoServer
    /\ sent = <<>>
    /\ call_outcome = NoOutcome
    /\ environ = <<>>
    /\ disk = <<>>
    /\ loader = NoLoader
    /\ handlers = <<>>
    /\ pc = "called"

\* lines 177-178
RejectSchema ==
    /\ pc = "called"
    /\ DOMAIN fields_to_extract = {}
    /\ result' = PyDict([error |->
           Str("fields_to_extract is required and must be a dictionary {field: description}")])
    /\ pc' = "returned"
    /\ UNCHANGED <<environ, disk, loader, handlers,
                   calls, server, sent, call_outcome,
                   fields_to_extract, document_content, responses,
                   page_extractions, merged, caught>>

\* a single image or a one-page PDF: lines 243-255, then 285-367
ExtractSingle ==
    /\ pc = "called"
    /\ DOMAIN fields_to_extract # {}
    /\ ~IsMultiPage
    /\ \E reply \in ServerReplies :
        LET called  == call_ollama_vision(Serving(reply))
            outcome == IF called.ok
                       THEN ParseAndNormalise(called.value,
                                              DOMAIN fields_to_extract)
                       ELSE called
        IN  /\ responses' = <<reply>>
            /\ calls' = <<SingleImage(document_content)>>
            /\ caught' = IF outcome.ok THEN NoException ELSE outcome.exc
            /\ result' = IF outcome.ok THEN outcome.value
                         ELSE DegradedResult(outcome.exc,
                                             DOMAIN fields_to_extract)
    /\ pc' = "returned"
    /\ UNCHANGED <<environ, disk, loader, handlers,
                   server, sent, call_outcome,
                   fields_to_extract, document_content, page_extractions,
                   merged>>

\* one iteration of the loop over the pages: lines 261-275
ProcessPage ==
    /\ pc = "called"
    /\ DOMAIN fields_to_extract # {}
    /\ IsMultiPage
    /\ Len(responses) < Len(document_content.pages)
    /\ \E reply \in ServerReplies :
        /\ responses' = Append(responses, reply)
        /\ calls' = Append(calls, PageImage(document_content,
                                            Len(calls) + 1))
        /\ page_extractions' = AfterPage(page_extractions, reply)
    /\ UNCHANGED <<environ, disk, loader, handlers,
                   server, sent, call_outcome,
                   fields_to_extract, document_content, merged, caught,
                   result, pc>>

\* after the loop: lines 277-283, then 285-367
FinishPages ==
    /\ pc = "called"
    /\ DOMAIN fields_to_extract # {}
    /\ IsMultiPage
    /\ Len(responses) = Len(document_content.pages)
    /\ merged' = IF NoPageSucceeded(page_extractions) THEN NoOutcome
                 ELSE merge_page_results(page_extractions, fields_to_extract)
    /\ LET outcome ==
               IF NoPageSucceeded(page_extractions)
               THEN [ok |-> FALSE,
                     exc |-> Str("Failed to process any page of the document")]
               ELSE IF ~merged'.ok THEN merged'
               ELSE ParseAndNormalise(json_dumps(merged'.value),
                                      DOMAIN fields_to_extract)
       IN  /\ caught' = IF outcome.ok THEN NoException ELSE outcome.exc
           /\ result' = IF outcome.ok THEN outcome.value
                        ELSE DegradedResult(outcome.exc,
                                            DOMAIN fields_to_extract)
    /\ pc' = "returned"
    /\ UNCHANGED <<environ, disk, loader, handlers,
                   calls, server, sent, call_outcome,
                   fields_to_extract, document_content, responses,
                   page_extractions>>

Next == RejectSchema \/ ExtractSingle \/ ProcessPage \/ FinishPages

Spec == Init /\ [][Next]_vars

----------------------------------------------------------------------------
(* SpecCall: one call of call_ollama_vision, request by request *)

ModelNames == {DefaultModel, "codellama:13b"}

\* details.families as Ollama reports it: null or a list
FamiliesSeen ==
    {PyNone, ListOf({"llama"}), ListOf({"llama", "clip"}), ListOf({"mllama"})}

ShowReplies ==
    {Unreachable, HttpError(404, "model not found")}
    \cup {ShowOk(f, p) : f \in FamiliesSeen, p \in BOOLEAN}

TagsReplies ==
    {Unreachable, HttpError(500, "internal error"), TagsOk({})}
    \cup {TagsOk({Entry(n, fam, f)}) :
              n \in ModelNames, fam \in {"llama", "llava"}, f \in FamiliesSeen}

GenerateReplies ==
    {TimedOut, Unreachable,
     HttpError(400, "this model does not support images"),
     HttpError(400, "invalid image data"),
     HttpError(413, "request entity too large"),
     HttpError(500, "model runner has unexpectedly stopped"),
     HttpError(503, "service unavailable"),
     Reply(<<>>), InvoicePage("INV-1", 40)}

Servers ==
    {[model |-> m, show |-> s, tags |-> t, generate |-> g] :
         m \in ModelNames, s \in ShowReplies, t \in TagsReplies,
         g \in GenerateReplies}

InitCall ==
    /\ fields_to_extract = <<>>
    /\ document_content = [type |-> "image", data |-> "image"]
    /\ responses = <<>>
    /\ page_extractions = <<>>
    /\ merged = NoOutcome
    /\ caught = NoException
    /\ result = PyNone
    /\ calls = <<>>
    /\ server \in Servers
    /\ sent = <<>>
    /\ call_outcome = NoOutcome
    /\ environ = <<>>
    /\ disk = <<>>
    /\ loader = NoLoader
    /\ handlers = <<>>
    /\ pc = "call"

\* lines 375-380: is_vision_model and the requests it sends
CheckVision ==
    /\ pc = "call"
    /\ sent' = sent \o ProbeRequests(server.model, server)
    /\ pc' = IF is_vision_model(server.model, server) THEN "vision"
             ELSE "text_only"
    /\ UNCHANGED <<environ, disk, loader, handlers,
                   fields_to_extract, document_content, responses,
                   page_extractions, merged, caught, result, calls, server,
                   call_outcome>>

\* line 381: the model is text-only
RefuseTextOnly ==
    /\ pc = "text_only"
    /\ call_outcome' = call_ollama_vision(server)
    /\ pc' = "call_raised"
    /\ UNCHANGED <<environ, disk, loader, handlers,
                   fields_to_extract, document_content, responses,
                   page_extractions, merged, caught, result, calls, server,
                   sent>>

\* lines 383-438: the generate request and what comes of it
Generate ==
    /\ pc = "vision"
    /\ sent' = Append(sent, GenerateRequest(server.model,
                                            SingleImage(document_content)))
    /\ call_outcome' = call_ollama_vision(server)
    /\ pc' = IF call_outcome'.ok THEN "call_returned" ELSE "call_raised"
    /\ UNCHANGED <<environ, disk, loader, handlers,
                   fields_to_extract, document_content, responses,
                   page_extractions, merged, caught, result, calls, server>>

NextCall == CheckVision \/ RefuseTextOnly \/ Generate

SpecCall == InitCall /\ [][NextCall]_vars

----------------------------------------------------------------------------
(* Files: the disk is a function from the paths that exist to contents *)

\* os.path.join(UPLOAD_FOLDER, filename)
UploadPath(filename) == [file |-> filename]

\* line 83: f"{pdf_path}_page_{i}.jpg"
TempImagePath(pdf_path, i) == [file |-> pdf_path.file, page |-> i]

IsTempImage(path) == "page" \in DOMAIN path

Written(files, path, content) ==
    [p \in DOMAIN files \cup {path} |->
        IF p = path THEN content ELSE files[p]]

Removed(files, path) == [p \in DOMAIN files \ {path} |-> files[p]]

----------------------------------------------------------------------------
(* SpecPdf: one call of process_pdf, step by step *)

\* line 60
MAX_PAGES == 10
\* line 74
MAX_WIDTH == 1344

\* the first n elements of a sequence: seq[:n]
FirstN(seq, n) == SubSeq(seq, 1, IF Len(seq) < n THEN Len(seq) ELSE n)

\* lines 74-79: the image as it is saved
Resized(image) ==
    IF image.width > MAX_WIDTH THEN [image EXCEPT !.width = MAX_WIDTH]
    ELSE image

\* lines 84-89: the JPEG file of an image, and the base64 text of a file
Jpeg(image) == [jpeg |-> image]
Base64(content) == [base64 |-> content]

\* page widths of the PDFs of the model, in pixels at 250 dpi
PageWidths == {1200, 2067}

\* what convert_from_path makes of the uploaded file: the page images, or
\* an exception for a file that is no PDF
PdfFiles ==
    {[kind |-> "broken"]}
    \cup {[kind |-> "pdf",
           images |-> [k \in 1..n |-> [page |-> k, width |-> w[k]]]] :
              n \in 0..MaxPages, w \in [1..MaxPages -> PageWidths]}

InitPdf ==
    /\ fields_to_extract = <<>>
    /\ document_content = PyNone
    /\ responses = <<>>
    /\ page_extractions = <<>>
    /\ merged = NoOutcome
    /\ caught = NoException
    /\ result = PyNone
    /\ calls = <<>>
    /\ server = NoServer
    /\ sent = <<>>
    /\ call_outcome = NoOutcome
    /\ environ = <<>>
    /\ handlers = <<>>
    /\ \E file \in PdfFiles :
           disk = Written(<<>>, UploadPath("invoice.pdf"), file)
    /\ loader = [pc |-> "convert", pdf_path |-> UploadPath("invoice.pdf"),
                 images |-> <<>>, i |-> 0, base64_images |-> <<>>]
    /\ pc = "process_pdf"

\* what process_pdf leaves alone
PdfUnchanged ==
    UNCHANGED <<fields_to_extract, responses, page_extractions, merged,
                caught, result, calls, server, sent, call_outcome, environ,
                handlers, pc>>

\* lines 56-65: convert_from_path, and the limit on the pages
ConvertPdf ==
    /\ loader.pc = "convert"
    /\ LET file == disk[loader.pdf_path]
       IN  loader' =
               IF file.kind # "pdf" THEN [loader EXCEPT !.pc = "raised"]
               ELSE [loader EXCEPT
                        !.images = FirstN(file.images, MAX_PAGES),
                        !.pc = IF file.images = <<>> THEN "done" ELSE "save"]
    /\ UNCHANGED <<disk, document_content>>
    /\ PdfUnchanged

\* lines 74-84: resize and image.save; a save that fails leaves no file
SavePage ==
    /\ loader.pc = "save"
    /\ LET image == Resized(loader.images[loader.i + 1])
           temp_image_path == TempImagePath(loader.pdf_path, loader.i)
       IN  \/ /\ disk' = Written(disk, temp_image_path, Jpeg(image))
              /\ loader' = [loader EXCEPT !.pc = "encode"]
           \/ /\ disk' = disk
              /\ loader' = [loader EXCEPT !.pc = "raised"]
    /\ UNCHANGED document_content
    /\ PdfUnchanged

\* lines 87-94: read the file and encode it; either may raise
EncodePage ==
    /\ loader.pc = "encode"
    /\ LET temp_image_path == TempImagePath(loader.pdf_path, loader.i)
       IN  \/ loader' = [loader EXCEPT
                  !.base64_images = Append(@, Base64(disk[temp_image_path])),
                  !.pc = "remove"]
           \/ loader' = [loader EXCEPT !.pc = "raised"]
    /\ UNCHANGED <<disk, document_content>>
    /\ PdfUnchanged

\* line 97, and the next turn of the loop
RemoveTemp ==
    /\ loader.pc = "remove"
    /\ disk' = Removed(disk, TempImagePath(loader.pdf_path, loader.i))
    /\ loader' = [loader EXCEPT
           !.i = @ + 1,
           !.pc = IF loader.i + 1 < Len(loader.images) THEN "save"
                  ELSE "done"]
    /\ UNCHANGED document_content
    /\ PdfUnchanged

\* lines 103-106
ReturnPages ==
    /\ loader.pc = "done"
    /\ document_content' = [type |-> "pdf", pages |-> loader.base64_images]
    /\ loader' = [loader EXCEPT !.pc = "returned"]
    /\ UNCHANGED disk
    /\ PdfUnchanged

NextPdf == ConvertPdf \/ SavePage \/ EncodePage \/ RemoveTemp \/ ReturnPages

SpecPdf == InitPdf /\ [][NextPdf]_vars

----------------------------------------------------------------------------
(* process_document, as one step *)

\* process_document answering an empty page list for a file it cannot load
process_document_lenient(files, filepath, mime_type) ==
    [ok |-> TRUE, value |-> [type |-> "pdf", pages |-> <<>>]]

\* lines 32-44: the file is read and encoded, whatever it holds
process_image(files, image_path) ==
    IF image_path \notin DOMAIN files
    THEN [ok |-> FALSE, exc |-> Str("[Errno 2] No such file or directory")]
    ELSE [ok |-> TRUE,
          value |-> [type |-> "image", data |-> Base64(files[image_path])]]

\* lines 47-111, when saving and encoding the pages does not fail
process_pdf(files, pdf_path) ==
    IF pdf_path \notin DOMAIN files \/ files[pdf_path].kind # "pdf"
    THEN [ok |-> FALSE, exc |-> Str("Unable to get page count.")]
    ELSE LET images == FirstN(files[pdf_path].images, MAX_PAGES)
         IN  [ok |-> TRUE,
              value |-> [type |-> "pdf",
                         pages |-> [k \in 1..Len(images) |->
                                       Base64(Jpeg(Resized(images[k])))]]]

\* lines 18-29
process_document(files, filepath, mime_type) ==
    IF mime_type \in {"image/png", "image/jpeg"}
    THEN process_image(files, filepath)
    ELSE IF mime_type = "application/pdf"
    THEN process_pdf(files, filepath)
    ELSE [ok |-> FALSE,
          exc |-> Fmt(<<"Unsupported file type: ", mime_type>>)]

\* processor.py line 15, read at every call of call_ollama_vision
get_ollama_model(env) ==
    IF "OLLAMA_MODEL" \in DOMAIN env THEN env.OLLAMA_MODEL ELSE DefaultModel

----------------------------------------------------------------------------
(* app.py: the names of files and of models *)

\* app.py line 34
ALLOWED_EXTENSIONS == {"png", "jpg", "jpeg", "pdf"}

\* filename.rsplit('.', 1)[1].lower(), on the file names of the model
Extension(filename) ==
    CASE filename = "invoice.pdf" -> "pdf"
      [] filename = "scan 1.PNG" -> "png"
      [] filename = "notes.txt" -> "txt"

\* app.py lines 42-43
allowed_file(filename) == Extension(filename) \in ALLOWED_EXTENSIONS

\* werkzeug's secure_filename, on the file names of the model
secure_filename(filename) ==
    CASE filename = "scan 1.PNG" -> "scan_1.PNG"
      [] OTHER -> filename

\* target_model.split(':'), on the model names of the model
SplitName(name) ==
    CASE name = "llama3.2-vision:11b" -> <<"llama3.2-vision", "11b">>
      [] name = "llama3.2-vision:latest" -> <<"llama3.2-vision", "latest">>
      [] name = "llava:7b" -> <<"llava", "7b">>
      [] OTHER -> <<name>>

\* app.py lines 447-450, in tenths of a billion parameters
size_hints ==
    [x \in {"11b", "7b", "13b"} |->
        CASE x = "11b" -> 110 [] x = "7b" -> 70 [] x = "13b" -> 130]

\* an installed model of /api/tags; parameter_size in tenths of a billion
Installed(name, parameter_size) ==
    [name |-> name, parameter_size |-> parameter_size]

\* app.py lines 466-478: the installed model matches the target's size tag
SizeMatches(target_parts, installed) ==
    /\ Len(target_parts) > 1
    /\ target_parts[2] \in DOMAIN size_hints
    /\ LET target_size == size_hints[target_parts[2]]
           diff == IF installed.parameter_size > target_size
                   THEN installed.parameter_size - target_size
                   ELSE target_size - installed.parameter_size
       IN  4 * diff < target_size

\* app.py lines 425-488; tags is the answer of /api/tags
normalize_model_name(target_model, tags) ==
    IF tags.kind # "http" \/ tags.status # 200 THEN target_model
    ELSE IF \E m \in tags.models : m.name = target_model THEN target_model
    ELSE LET matching ==
                 {m \in tags.models :
                      /\ SplitName(m.name)[1] = SplitName(target_model)[1]
                      /\ SizeMatches(SplitName(target_model), m)}
         IN  IF matching = {} THEN target_model
             ELSE (CHOOSE m \in matching : TRUE).name

----------------------------------------------------------------------------
(* SpecApp: two /extract requests of one file each, handled concurrently   *)
(* by the threads of the server, and the routes that set the model         *)

Requests == {"A", "B"}

TwoPages == <<[page |-> 1, width |-> 1200], [page |-> 2, width |-> 2067]>>

\* the files request r may upload; the content carries its uploader
Uploads(r) ==
    {[filename |-> "invoice.pdf", mimetype |-> "application/pdf",
      content |-> [kind |-> "pdf", images |-> TwoPages, from |-> r]],
     [filename |-> "invoice.pdf", mimetype |-> "application/pdf",
      content |-> [kind |-> "broken", from |-> r]],
     [filename |-> "invoice.pdf", mimetype |-> "text/plain",
      content |-> [kind |-> "pdf", images |-> TwoPages, from |-> r]],
     [filename |-> "scan 1.PNG", mimetype |-> "image/png",
      content |-> [kind |-> "image", from |-> r]],
     [filename |-> "notes.txt", mimetype |-> "text/plain",
      content |-> [kind |-> "text", from |-> r]]}

\* the models a client may set or pull, and the answers of /api/tags
RequestedModels == {"llama3.2-vision:11b", "llava:7b"}
InstalledLists ==
    {Unreachable, TagsOk({Installed("llama3.2-vision:latest", 107)})}

NoFile == [kind |-> "missing"]
NoDocument == [type |-> "none"]
NoResponse == [status |-> 0]

InitApp ==
    /\ fields_to_extract = <<>>
    /\ document_content = PyNone
    /\ responses = <<>>
    /\ page_extractions = <<>>
    /\ merged = NoOutcome
    /\ caught = NoException
    /\ result = PyNone
    /\ calls = <<>>
    /\ server = NoServer
    /\ sent = <<>>
    /\ call_outcome = NoOutcome
    /\ loader = NoLoader
    /\ environ = <<>>
    /\ disk = <<>>
    /\ handlers \in
           {[r \in Requests |->
                [file |-> f[r], pc |-> "received", read |-> NoFile,
                 load |-> NoOutcome,
                 document |-> NoDocument, models |-> <<>>,
                 response |-> NoResponse]] :
                f \in [Requests -> UNION {Uploads(r) : r \in Requests}]}
    /\ \A r \in Requests : handlers[r].file \in Uploads(r)
    /\ pc = "serving"

AppUnchanged ==
    UNCHANGED <<fields_to_extract, document_content, responses,
                page_extractions, merged, caught, result, calls, server,
                sent, call_outcome, loader, pc>>

Filepath(r) == UploadPath(secure_filename(handlers[r].file.filename))

\* app.py lines 534 and 562-565: a file of another kind is passed over
SkipFile ==
    /\ \E r \in Requests :
        /\ handlers[r].pc = "received"
        /\ ~allowed_file(handlers[r].file.filename)
        /\ handlers' = [handlers EXCEPT
               ![r].pc = "responded",
               ![r].response = [status |-> 200, results |-> <<>>]]
    /\ UNCHANGED <<environ, disk>>
    /\ AppUnchanged

\* app.py lines 538-540: file.save(filepath)
SaveUpload ==
    /\ \E r \in Requests :
        /\ handlers[r].pc = "received"
        /\ allowed_file(handlers[r].file.filename)
        /\ disk' = Written(disk, Filepath(r), handlers[r].file.content)
        /\ handlers' = [handlers EXCEPT ![r].pc = "saved"]
    /\ UNCHANGED environ
    /\ AppUnchanged

\* app.py line 544: process_document(filepath, file.mimetype)
LoadDocument ==
    /\ \E r \in Requests :
        /\ handlers[r].pc = "saved"
        /\ LET loaded == process_document(disk, Filepath(r),
                                          handlers[r].file.mimetype)
           IN  handlers' = [handlers EXCEPT
                   ![r].read = IF Filepath(r) \in DOMAIN disk
                               THEN disk[Filepath(r)] ELSE NoFile,
                   ![r].load = loaded,
                   ![r].document = IF loaded.ok THEN loaded.value
                                   ELSE NoDocument,
                   ![r].pc = IF loaded.ok THEN "loaded" ELSE "raised"]
    /\ UNCHANGED <<environ, disk>>
    /\ AppUnchanged

\* the calls extract_structured_data_with_ollama makes for a document
CallsNeeded(document) ==
    IF document.type = "pdf" /\ Len(document.pages) # 1
    THEN Len(document.pages) ELSE 1

\* app.py lines 547-551: one call of call_ollama_vision, with the model
\* get_ollama_model() names at that moment
CallModel ==
    /\ \E r \in Requests :
        /\ handlers[r].pc = "loaded"
        /\ Len(handlers[r].models) < CallsNeeded(handlers[r].document)
        /\ handlers' = [handlers EXCEPT
               ![r].models = Append(@, get_ollama_model(environ))]
    /\ UNCHANGED <<environ, disk>>
    /\ AppUnchanged

\* app.py lines 553-565: the result is appended, the upload removed in the
\* finally and the results returned
ReturnResults ==
    /\ \E r \in Requests :
        /\ handlers[r].pc = "loaded"
        /\ Len(handlers[r].models) = CallsNeeded(handlers[r].document)
        /\ disk' = Removed(disk, Filepath(r))
        /\ handlers' = [handlers EXCEPT
               ![r].pc = "responded",
               ![r].response =
                   [status |-> 200,
                    results |-> <<[filename |->
                                       secure_filename(handlers[r].file.filename),
                                   extraction |->
                                       [of |-> handlers[r].document,
                                        models |-> handlers[r].models]]>>]]
    /\ UNCHANGED environ
    /\ AppUnchanged

\* app.py lines 558-561 and 567-571: the upload is removed in the finally
\* and the exception answered with status 500
ReturnError ==
    /\ \E r \in Requests :
        /\ handlers[r].pc = "raised"
        /\ disk' = Removed(disk, Filepath(r))
        /\ handlers' = [handlers EXCEPT
               ![r].pc = "responded",
               ![r].response =
                   [status |-> 500,
                    error |-> Fmt(<<"Internal server error: ",
                                    handlers[r].load.exc>>)]]
    /\ UNCHANGED environ
    /\ AppUnchanged

\* app.py lines 401-423
set_model ==
    /\ \E model_name \in RequestedModels, tags \in InstalledLists :
        environ' = [OLLAMA_MODEL |-> normalize_model_name(model_name, tags)]
    /\ UNCHANGED <<disk, handlers>>
    /\ AppUnchanged

\* app.py lines 306-375, for a pull that succeeds; one that fails, or one
\* with set_current false, leaves the environment as it is
pull_model ==
    /\ \E model \in RequestedModels, set_current \in BOOLEAN :
        environ' = IF set_current THEN [OLLAMA_MODEL |-> model] ELSE environ
    /\ UNCHANGED <<disk, handlers>>
    /\ AppUnchanged

NextApp ==
    \/ SkipFile \/ SaveUpload \/ LoadDocument \/ CallModel
    \/ ReturnResults \/ ReturnError \/ set_model \/ pull_model

SpecApp == InitApp /\ [][NextApp]_vars

----------------------------------------------------------------------------
(* Vocabulary of the claims about merge_page_results *)

MergedData == merged.value.d.extraction_results.d.data.d
MergedConfidence == merged.value.d.extraction_results.d.confidence_score.n
Keys == DOMAIN fields_to_extract
PageIndexes == 1..Len(page_extractions)

\* what page i holds for field k, and the value and confidence it offers
PageResults(i) == Get(page_extractions[i], "extraction_results", EmptyDict)
Offered(i, k) == Get(Get(PageResults(i), "data", EmptyDict), k, PyNone)
OfferedValue(i, k) == FieldValue(Offered(i, k))
OfferedConfidence(i, k) ==
    FieldConfidence(Offered(i, k),
                    Get(PageResults(i), "confidence_score", Num(0))).n

\* the pages whose value for k the merge does not skip
Candidates(k) == {i \in PageIndexes : IsFound(OfferedValue(i, k))}

\* the emptiness rule as the specification words it
IsEmptyValue(v) ==
    \/ v = PyNone
    \/ /\ v.py = "str"
       /\ \/ v.s = ""
          \/ Lower(v.s) \in {"null", "none", "not found"}

\* the highest confidence any candidate page offers for k
BestConfidence(k) ==
    CHOOSE c \in {OfferedConfidence(i, k) : i \in Candidates(k)} :
        \A i \in Candidates(k) : OfferedConfidence(i, k) <= c

RECURSIVE SumBest(_)
SumBest(S) ==
    IF S = {} THEN 0
    ELSE LET k == CHOOSE x \in S : TRUE
         IN  BestConfidence(k) + SumBest(S \ {k})

AdoptedKeys == {k \in Keys : Candidates(k) # {}}

----------------------------------------------------------------------------
(* Claims C1 to C5, checked under SpecMerge *)

\* C1: whenever merge_page_results returns, its data mapping has exactly the
\* keys of the schema, and a field for which no page offered an adoptable
\* value is present with None.
MergeKeepsSchemaKeys ==
    pc = "merged" =>
        /\ DOMAIN MergedData = Keys
        /\ \A k \in Keys : Candidates(k) = {} => MergedData[k] = PyNone

\* C1 witness: a one-field schema, a page that also carries a key outside
\* the schema, and no adoptable value for the schema's field.
MergeKeepsSchemaKeysWitness ==
    /\ pc = "merged"
    /\ Keys = {"invoice_id"}
    /\ \E i \in PageIndexes :
           "total" \in DOMAIN Get(PageResults(i), "data", EmptyDict).d
    /\ Candidates("invoice_id") = {}

\* C2: for every field with a candidate, the adopted value and confidence
\* are those of one candidate page j whose confidence is at least that of
\* every other candidate, and j is the earliest page among the candidates
\* that reach that confidence.
MergeAdoptsEarliestHighest ==
    pc = "merged" =>
        \A k \in AdoptedKeys :
            \E j \in Candidates(k) :
                /\ MergedData[k] = OfferedValue(j, k)
                /\ merged.field_confidences[k].n = OfferedConfidence(j, k)
                /\ \A i \in Candidates(k) :
                       /\ OfferedConfidence(i, k) <= OfferedConfidence(j, k)
                       /\ OfferedConfidence(i, k) = OfferedConfidence(j, k)
                              => j <= i

\* C2 witness: two pages offer different values at the same confidence, a
\* later page a lower one.
MergeAdoptsEarliestHighestWitness ==
    /\ pc = "merged"
    /\ Len(page_extractions) = 2
    /\ Candidates("invoice_id") = {1, 2}
    /\ OfferedConfidence(1, "invoice_id") = OfferedConfidence(2, "invoice_id")
    /\ OfferedValue(1, "invoice_id") # OfferedValue(2, "invoice_id")
    /\ MergedData["invoice_id"] = OfferedValue(1, "invoice_id")

\* C3 (as claimed): a value that is empty, or case-insensitively "null",
\* "none" or "not found", is never the merged value of a field for which
\* some page offers a non-empty value.
EmptyNeverAdoptedOverNonEmpty ==
    pc = "merged" =>
        \A k \in Keys :
            (\E i \in PageIndexes : ~IsEmptyValue(OfferedValue(i, k)))
                => ~IsEmptyValue(MergedData[k])

\* C4 (as claimed): merging a single page returns that page's field values
\* pointwise.
SinglePageMergeIsIdentity ==
    (pc = "merged" /\ Len(page_extractions) = 1) =>
        \A k \in Keys : MergedData[k] = OfferedValue(1, k)

\* C5 (as claimed): the overall confidence is the mean of the confidences
\* of the adopted fields, and 0 when no field was adopted.
MergedConfidenceIsMean ==
    pc = "merged" =>
        IF AdoptedKeys = {} THEN MergedConfidence = 0
        ELSE MergedConfidence * Cardinality(AdoptedKeys) = SumBest(AdoptedKeys)

\* C5 (amended): the overall confidence is that mean truncated to an
\* integer; fields left None do not enter it, and it is 0 when no field was
\* adopted.
MergedConfidenceIsTruncatedMean ==
    pc = "merged" =>
        IF AdoptedKeys = {} THEN MergedConfidence = 0
        ELSE LET n == Cardinality(AdoptedKeys)
             IN  /\ MergedConfidence * n <= SumBest(AdoptedKeys)
                 /\ SumBest(AdoptedKeys) < (MergedConfidence + 1) * n

\* C5 witness: a two-field schema where one field is adopted and the other
\* is left None.
MergedConfidenceIsTruncatedMeanWitness ==
    /\ pc = "merged"
    /\ Keys = {"invoice_id", "total"}
    /\ AdoptedKeys = {"total"}
    /\ MergedData["invoice_id"] = PyNone
    /\ MergedConfidence = 90

----------------------------------------------------------------------------
(* Vocabulary of the claims about extract_structured_data_with_ollama *)

HasError == "error" \in DOMAIN result.d
HasRecord == "extraction_results" \in DOMAIN result.d
ResultBody == result.d.extraction_results.d
ResultData == ResultBody.data.d

MultiPageReturned == pc = "returned" /\ IsMultiPage /\ Keys # {}

\* page i's call returned text that decodes as one JSON value (an empty
\* text stands for the empty object)
Decoded(i) ==
    /\ responses[i].kind = "ok"
    /\ \/ responses[i].response = <<>>
       \/ /\ Len(responses[i].response) = 1
          /\ responses[i].response[1].tok = "json"

DecodedValue(i) ==
    IF responses[i].response = <<>> THEN EmptyDict
    ELSE responses[i].response[1].v

\* a decoded page result the merge can read: an object whose
\* extraction_results, if present, is an object whose data, if present, is
\* an object
WellFormed(v) ==
    /\ IsDict(v)
    /\ "extraction_results" \in DOMAIN v.d =>
           /\ IsDict(v.d.extraction_results)
           /\ "data" \in DOMAIN v.d.extraction_results.d =>
                  IsDict(v.d.extraction_results.d.data)

\* the decoded results of pages 1..n, in page order
RECURSIVE DecodedPages(_)
DecodedPages(n) ==
    IF n = 0 THEN <<>>
    ELSE IF Decoded(n) THEN Append(DecodedPages(n - 1), DecodedValue(n))
    ELSE DecodedPages(n - 1)

\* the same, keeping only the well-formed ones
RECURSIVE GoodPages(_)
GoodPages(n) ==
    IF n = 0 THEN <<>>
    ELSE IF Decoded(n) /\ WellFormed(DecodedValue(n))
    THEN Append(GoodPages(n - 1), DecodedValue(n))
    ELSE GoodPages(n - 1)

AllNone == [k \in Keys |-> PyNone]

\* the degraded record: every schema field None, confidence 0
IsDegraded ==
    /\ HasRecord
    /\ ResultData = AllNone
    /\ ResultBody.confidence_score = Num(0)

----------------------------------------------------------------------------
(* Claims C6 to C10, checked under Spec *)

\* C6 (as claimed): for the three-page document whose pages hold invoice_id
\* at confidence 40, at confidence 90 and empty, the returned record holds
\* page 2's value and confidence 90.
ScenarioReturnsPageTwoAtNinety ==
    ( /\ pc = "returned"
      /\ Keys = {"invoice_id"}
      /\ responses = <<InvoicePage("INV-1", 40), InvoicePage("INV-2", 90),
                       InvoicePage("", 0)>> )
        => /\ ResultData["invoice_id"] = Str("INV-2")
           /\ ResultBody.confidence_score = Num(90)

\* C7: in the multi-page flow the merge input is exactly the decoded results
\* of the pages whose call succeeded, in page order; and when at least one
\* page succeeded (every decoded page being well-formed) the request returns
\* the merged values without an error, whatever calls failed.
FailedPagesAreExcluded ==
    (IsMultiPage /\ Keys # {}) =>
        /\ page_extractions = DecodedPages(Len(responses))
        /\ ( /\ pc = "returned"
             /\ page_extractions # <<>>
             /\ \A j \in PageIndexes : WellFormed(page_extractions[j]) )
               => /\ ~HasError
                  /\ merged.ok
                  /\ ResultData = MergedData

\* C7 witness: three pages, the call of page 2 timed out, pages 1 and 3 are
\* merged and the request returned a record without error.
FailedPagesAreExcludedWitness ==
    /\ MultiPageReturned
    /\ Len(responses) = 3
    /\ responses[2] = TimedOut
    /\ Decoded(1) /\ Decoded(3)
    /\ page_extractions = <<DecodedValue(1), DecodedValue(3)>>
    /\ ~HasError
    /\ ResultData["invoice_id"] # PyNone

AllPagesFailed == \A i \in 1..Len(responses) : ~Decoded(i)

\* C8 (as claimed): when every page fails the request returns an error and
\* no degraded empty record.
AllPagesFailedReturnsNoRecord ==
    (MultiPageReturned /\ Len(responses) >= 2 /\ AllPagesFailed)
        => HasError /\ ~IsDegraded

\* C8 (amended): when every page fails the request returns the error
\* "Failed to process any page of the document" together with the degraded
\* empty record.
AllPagesFailedReturnsErrorAndEmptyRecord ==
    (MultiPageReturned /\ Len(responses) >= 2 /\ AllPagesFailed)
        => /\ HasError
           /\ result.d.error =
                  Fmt(<<"Error calling Ollama: ",
                        Str("Failed to process any page of the document")>>)
           /\ IsDegraded

\* C8 witness: a document of at least two pages, one call timed out and
\* another returned text that does not decode.
AllPagesFailedWitness ==
    /\ MultiPageReturned
    /\ Len(responses) >= 2
    /\ AllPagesFailed
    /\ \E i \in 1..Len(responses) : responses[i] = TimedOut
    /\ \E i \in 1..Len(responses) : responses[i] = Reply(<<Prose>>)

\* what merging the well-formed pages alone yields
GoodData ==
    merge_page_results(GoodPages(Len(responses)), fields_to_extract)
        .value.d.extraction_results.d.data.d

\* C9 (as claimed): a malformed page never aborts the request: whenever the
\* well-formed pages yield a value, the returned record has no error and
\* holds the values merged from the well-formed pages.
MalformedPageIsDropped ==
    ( /\ MultiPageReturned
      /\ GoodPages(Len(responses)) # <<>>
      /\ GoodData # AllNone )
        => /\ ~HasError
           /\ ResultData = GoodData

\* C10: for a non-empty schema the request ends by returning a result, and
\* when an exception raised in the model call, the parsing, the merge or the
\* normalisation reached the top-level handler, that result carries the
\* error, every schema field None, confidence 0 and "Error: " followed by
\* the exception's message as reasoning; without such an exception it
\* carries no error.
FailuresReturnDegradedResult ==
    (pc = "returned" /\ Keys # {}) =>
        /\ result.py = "dict"
        /\ IF caught = NoException THEN ~HasError /\ HasRecord
           ELSE /\ HasError
                /\ IsDegraded
                /\ ResultBody.reasoning = Fmt(<<"Error: ", caught>>)

\* C10 witness: a multi-page request whose merge raised on a page result
\* that is a list.
FailuresReturnDegradedResultWitness ==
    /\ MultiPageReturned
    /\ caught = Str("'list' object has no attribute 'get'")
    /\ ResultData = AllNone

----------------------------------------------------------------------------
(* Claims C11 to C16, checked under Spec and SpecMerge *)

SinglePageReturned == pc = "returned" /\ ~IsMultiPage /\ Keys # {}

\* the text the one call of the single-page flow returned
RawText == responses[1].response

\* a text without any JSON in it: prose only
NoJsonAtAll(text) ==
    text # <<>> /\ \A i \in 1..Len(text) : text[i].tok = "prose"

RECURSIVE TextChars(_)
TextChars(text) ==
    IF text = <<>> THEN 0 ELSE TokenChars(Head(text)) + TextChars(Tail(text))

\* C11: in the single-page flow a response without any JSON in it does not
\* crash the request: the result returned is an error result, the degraded
\* record with the error "No JSON found in response" followed by an excerpt
\* of the raw text, its first characters, never more than 200 of them.
NoJsonReturnsErrorWithExcerpt ==
    (SinglePageReturned /\ responses[1].kind = "ok" /\ NoJsonAtAll(RawText))
        => /\ HasError
           /\ IsDegraded
           /\ result.d.error.parts[1] = "Error calling Ollama: "
           /\ result.d.error.parts[2] = caught
           /\ caught.parts[1] = "No JSON found in response. Raw: "
           /\ TextChars(caught.parts[2]) <= 200
           /\ TextChars(caught.parts[2]) <= TextChars(RawText)
           /\ \A i \in 1..Len(caught.parts[2]) :
                  \/ caught.parts[2][i] = RawText[i]
                  \/ /\ caught.parts[2][i].tok = "cut"
                     /\ caught.parts[2][i].of = RawText[i]
                     /\ i = Len(caught.parts[2])

\* C11 witness: a prose response longer than the excerpt was returned as an
\* error result quoting only its beginning.
NoJsonReturnsErrorWithExcerptWitness ==
    /\ SinglePageReturned
    /\ responses[1].kind = "ok"
    /\ NoJsonAtAll(RawText)
    /\ TextChars(RawText) > 200
    /\ HasError
    /\ TextChars(caught.parts[2]) = 200

\* the objects embedded in a text that is not valid JSON as a whole
Embedded(text) ==
    {i \in BraceTokens(text) : Len(text) > 1}

\* the request returned what it returns when object i alone is the response
DecodedAs(i) ==
    LET alone == ParseAndNormalise(<<RawText[i]>>, Keys)
    IN  IF alone.ok THEN caught = NoException /\ result = alone.value
        ELSE caught = alone.exc

\* the parse of the response failed for want of decodable text
ParseFailedWith(message) ==
    caught.py = "fstr" /\ caught.parts[1] = message

EnvelopeAnswered ==
    /\ SinglePageReturned
    /\ Decoded(1)
    /\ IsDict(DecodedValue(1))
    /\ "extraction_results" \in DOMAIN DecodedValue(1).d
    /\ IsDict(DecodedValue(1).d.extraction_results)
    /\ "data" \in DOMAIN DecodedValue(1).d.extraction_results.d
    /\ IsDict(DecodedValue(1).d.extraction_results.d.data)

AnswerBody == DecodedValue(1).d.extraction_results
AnswerData == AnswerBody.d.data
Omitted(k) == k \notin DOMAIN AnswerData.d
AssertsOverall == "overall_confidence" \in DOMAIN AnswerBody.d

\* the confidence of field k in the response: the one stated with a scored
\* field, 50 for a bare scalar, ifOmitted for a field left out
Stated(k, ifOmitted) ==
    IF Omitted(k) THEN ifOmitted
    ELSE IF IsScored(AnswerData.d[k])
    THEN Get(AnswerData.d[k], "confidence", Num(0)).n
    ELSE 50

RECURSIVE SumStated(_, _)
SumStated(S, ifOmitted) ==
    IF S = {} THEN 0
    ELSE LET k == CHOOSE x \in S : TRUE
         IN  Stated(k, ifOmitted) + SumStated(S \ {k}, ifOmitted)

\* C13 as stated: a schema field the response leaves out comes back as None
\* and counts as confidence 0 in the page's aggregate confidence (the
\* aggregate taken where the response states none of its own).
OmittedFieldCountsZero ==
    (EnvelopeAnswered /\ ~AssertsOverall /\ \E k \in Keys : Omitted(k))
        => /\ \A k \in Keys : Omitted(k) => ResultData[k] = PyNone
           /\ ResultBody.confidence_score =
                  Num(SumStated(Keys, 0) \div Cardinality(Keys))

\* C14 as stated, in the page merge (checked under SpecMerge): a field a page
\* returns as a bare scalar is a candidate of confidence 50, so a field that
\* only bare scalars were offered for is adopted at confidence 50.
BareScalarIsFiftyInMerge ==
    pc = "merged" =>
        \A k \in AdoptedKeys :
            (\A i \in Candidates(k) : ~IsScored(Offered(i, k)))
                => merged.field_confidences[k] = Num(50)

\* C15 as stated: the aggregate confidence of the returned page result is the
\* mean of the confidences its fields resolve to, whatever overall confidence
\* the response states (pages that leave no field out, so that every field
\* has a stated or neutral confidence).
AggregateIsDerived ==
    (EnvelopeAnswered /\ \A k \in Keys : ~Omitted(k))
        => ResultBody.confidence_score =
               Num(SumStated(Keys, 50) \div Cardinality(Keys))

\* a confidence as the data model has it
IsPercentage(v) == v.py = "int" /\ v.n \in 0..100

\* C16 as stated: every confidence of a returned result is an integer from
\* 0 to 100, whatever the response stated.
ConfidencesArePercentages ==
    (pc = "returned" /\ Keys # {} /\ HasRecord)
        => /\ IsPercentage(ResultBody.confidence_score)
           /\ "overall_confidence" \in DOMAIN ResultBody
                  => IsPercentage(ResultBody.overall_confidence)

----------------------------------------------------------------------------
(* Claims C17 to C19, checked under SpecCall *)

GenerateSent == \E i \in 1..Len(sent) : sent[i].url = "/api/generate"

\* the call ended for a model the capability check classified as text-only
RefusedAsTextOnly ==
    pc = "call_raised" /\ ~is_vision_model(server.model, server)

\* C17: when the capability check classifies the configured model as
\* text-only, call_ollama_vision raises an error that names the model, and
\* no generate request is sent, neither before the error nor after it.
TextOnlyFailsFast ==
    /\ pc = "text_only" => ~GenerateSent
    /\ RefusedAsTextOnly =>
           /\ ~call_outcome.ok
           /\ call_outcome.exc.py = "fstr"
           /\ call_outcome.exc.parts[2] = server.model
           /\ call_outcome.exc.parts[3] =
                  "' does not support vision/image input. Please select a vision-capable model like: llama3.2-vision, llava, or bakllava."
           /\ ~GenerateSent

\* C17 witness: a model installed without any vision marker was refused
\* after both metadata requests and nothing else.
TextOnlyFailsFastWitness ==
    /\ RefusedAsTextOnly
    /\ server.model = "codellama:13b"
    /\ Len(sent) = 2
    /\ ~call_outcome.ok

\* the listing's entries for the configured model
Listed ==
    IF server.tags.kind = "http" /\ server.tags.status = 200
    THEN {m \in server.tags.models : m.name = server.model}
    ELSE {}

\* both metadata requests were answered and the model is in the listing
MetadataRetrieved == server.show.kind = "http" /\ Listed # {}

HasClip(families) == families # PyNone /\ "clip" \in families.items

\* the four markers of a vision model
EncoderMarker ==
    \/ server.show.status = 200 /\ HasClip(server.show.families)
    \/ \E m \in Listed : HasClip(m.families)
ProjectorMarker == server.show.status = 200 /\ server.show.projector_info
FamilyMarker ==
    \E m \in Listed :
        \/ m.family \in vision_families
        \/ m.families # PyNone /\ m.families.items \cap vision_families # {}
KeywordMarker == server.model \in {"llama3.2-vision"}

\* C18 as stated: the capability check answers text-only exactly when the
\* model's metadata was retrieved and none of the four markers matches; in
\* every other case it answers vision-capable.
TextOnlyIffNoMarker ==
    pc \in {"vision", "text_only"} =>
        (pc = "text_only" <=>
             /\ MetadataRetrieved
             /\ ~EncoderMarker
             /\ ~ProjectorMarker
             /\ ~FamilyMarker
             /\ ~KeywordMarker)

\* the kinds of failure of the generate request
FailureKind(reply) ==
    CASE reply.kind = "timeout" -> "timeout"
      [] reply.kind = "unreachable" -> "unreachable"
      [] reply.kind = "http" /\ reply.status = 400 -> "bad request"
      [] reply.kind = "http" /\ reply.status = 413 -> "too large"
      [] reply.kind = "http" /\ reply.status >= 500 -> "server error"

\* the messages that tell the user what to do about a failure of that kind
Advice(kind, model) ==
    CASE kind = "timeout" ->
             {Str("Ollama request timed out. Try with a smaller document or faster model.")}
      [] kind = "bad request" ->
             {Str("Bad Request to Ollama. Possible causes: image too large, too many images, or invalid format. Try with a smaller/simpler document."),
              Fmt(<<"Model '", model,
                    "' does not support vision/image input. Please select a vision-capable model like: llama3.2-vision, llava, or bakllava.">>)}
      [] kind = "too large" ->
             {Str("Payload too large for Ollama. The document images are too big. Try with a smaller document.")}
      [] kind = "server error" ->
             {Str("Ollama internal error. The model might have crashed. Try restarting Ollama: ollama serve")}
      [] OTHER -> {}

\* C19 as stated: a timeout, an unreachable server, HTTP 400, HTTP 413 and
\* an HTTP server error of the generate request each leave
\* call_ollama_vision as an error of their own kind whose message tells the
\* user what to do.
NetworkFailuresAreActionable ==
    (pc = "call_raised" /\ GenerateSent)
        => /\ ~call_outcome.ok
           /\ call_outcome.exc \in
                  Advice(FailureKind(server.generate), server.model)

----------------------------------------------------------------------------
(* Claim C20, checked under Spec *)

\* C20: in the multi-page flow call_ollama_vision is called once per page,
\* in ascending page order, each call ended (its outcome recorded) before
\* the next is made and each carrying that page's image alone; a page whose
\* call failed is not called again. At every moment the calls made are those
\* of pages 1..n in order, and at the return n is the number of pages.
OneCallPerPageInOrder ==
    (IsMultiPage /\ Keys # {})
        => /\ Len(calls) = Len(responses)
           /\ Len(calls) <= Len(document_content.pages)
           /\ \A i \in 1..Len(calls) : calls[i] = <<document_content.pages[i]>>
           /\ pc = "returned" => Len(calls) = Len(document_content.pages)

\* C20 witness: a three-page document whose first page's call failed was
\* returned after three calls.
OneCallPerPageInOrderWitness ==
    /\ MultiPageReturned
    /\ Len(document_content.pages) = 3
    /\ responses[1] = TimedOut
    /\ Len(calls) = 3
    /\ ~HasError

----------------------------------------------------------------------------
(* Claim C21, checked under SpecPdf *)

TempImagesLeft == {p \in DOMAIN disk : IsTempImage(p)}

\* C21 as stated: when process_pdf has returned or raised, no temporary page
\* image it created is left on the disk, whether saving, reading or encoding
\* the page succeeded or failed.
TempImagesAreDeleted ==
    loader.pc \in {"returned", "raised"} => TempImagesLeft = {}

----------------------------------------------------------------------------
(* Claims C22, C23 and C25, checked under SpecApp *)

\* request r has saved its upload and not yet removed it
HoldsUpload(r) == handlers[r].pc \in {"saved", "loaded", "raised"}

\* C22 as stated: concurrent requests share no mutable state. The file a
\* request has uploaded stays on the disk as that request saved it, neither
\* overwritten nor deleted by the other request, until the request itself
\* removes it, also when both upload a file of the same name.
UploadsAreNotShared ==
    \A r \in Requests :
        HoldsUpload(r) =>
            /\ Filepath(r) \in DOMAIN disk
            /\ disk[Filepath(r)].from = r

\* C23 as stated: all the model calls made for one document use the same
\* model, whatever set-model or pull requests are handled between them.
OneModelPerDocument ==
    \A r \in Requests :
        \A i, j \in 1..Len(handlers[r].models) :
            handlers[r].models[i] = handlers[r].models[j]

\* the file request r's loader met cannot be loaded
CannotBeLoaded(r) ==
    \/ handlers[r].file.mimetype
           \notin {"image/png", "image/jpeg", "application/pdf"}
    \/ handlers[r].read.kind = "missing"
    \/ /\ handlers[r].file.mimetype = "application/pdf"
       /\ handlers[r].read.kind # "pdf"

LoaderCalled(r) == handlers[r].pc \in {"loaded", "raised", "responded"}
                       /\ handlers[r].load # NoOutcome

\* C25: when the document cannot be loaded (a media type that is neither an
\* image nor a PDF, a file that cannot be opened or converted) the loader
\* raises; and when the loader has raised there is no page list, no model
\* call is made for the document, and the request is answered with status
\* 500 and an error instead of results.
LoadFailureFailsRequest ==
    \A r \in Requests :
        LoaderCalled(r) =>
            /\ CannotBeLoaded(r) => ~handlers[r].load.ok
            /\ ~handlers[r].load.ok =>
                   /\ handlers[r].document = NoDocument
                   /\ handlers[r].models = <<>>
                   /\ handlers[r].pc = "responded" =>
                          /\ handlers[r].response.status = 500
                          /\ "error" \in DOMAIN handlers[r].response
                          /\ "results" \notin DOMAIN handlers[r].response

\* C25 witness: a request that uploaded a broken PDF was answered with
\* status 500 without a model call.
LoadFailureFailsRequestWitness ==
    /\ handlers["A"].file.content.kind = "broken"
    /\ handlers["A"].read = handlers["A"].file.content
    /\ handlers["A"].pc = "responded"
    /\ handlers["A"].response.status = 500
    /\ handlers["A"].models = <<>>

----------------------------------------------------------------------------
(* Claims C24 and C26 to C29, checked under Spec *)

\* every page that decoded is one the merge can read, and there is one
PagesMerge ==
    /\ DecodedPages(Len(responses)) # <<>>
    /\ GoodPages(Len(responses)) = DecodedPages(Len(responses))

\* what the first page that decoded says to the additional request
FirstAnswer ==
    Get(Get(DecodedPages(Len(responses))[1], "extraction_results", EmptyDict),
        "additional_request_result", PyNone)

\* C24: for a multi-page document whose pages merge, the returned record
\* has the key additional_request_result next to data, its value is the
\* answer of the first page that was processed successfully (None when that
\* page gave none), and no schema field holds that answer.
AnswerIsFirstPages ==
    (MultiPageReturned /\ PagesMerge) =>
        /\ HasRecord
        /\ "additional_request_result" \in DOMAIN ResultBody
        /\ ResultBody.additional_request_result = FirstAnswer
        /\ FirstAnswer # PyNone =>
               \A k \in Keys : ResultData[k] # FirstAnswer

\* C24 witness: the call of page 1 timed out, page 2 answers "paid" at
\* confidence 40 and page 3 "unpaid" at confidence 90: invoice_id comes from
\* page 3 and the answer from page 2.
AnswerIsFirstPagesWitness ==
    /\ MultiPageReturned
    /\ responses = <<TimedOut, AnsweringPage("INV-1", 40, "paid"),
                     AnsweringPage("INV-2", 90, "unpaid")>>
    /\ ResultData["invoice_id"] = Str("INV-2")
    /\ ResultBody.additional_request_result = Str("paid")

\* the result of the multi-page flow for the one page result v: lines
\* 282-283, then 285-353
MergeOfOne(v) ==
    ParseAndNormalise(
        json_dumps(merge_page_results(<<v>>, fields_to_extract).value), Keys)

\* C26 (as claimed): a single image or a single-page PDF whose response
\* decodes takes one model call and no merge, and the record returned has
\* the keys of the record returned for a merge of that one page, with one
\* plain value per schema field.
SinglePageShapedAsMergeOfOne ==
    ( /\ SinglePageReturned
      /\ ~HasError
      /\ Decoded(1)
      /\ WellFormed(DecodedValue(1)) )
        => /\ Len(calls) = 1
           /\ merged = NoOutcome
           /\ DOMAIN ResultData = Keys
           /\ DOMAIN ResultBody =
                  DOMAIN MergeOfOne(DecodedValue(1)).value
                             .d.extraction_results.d

\* the results of pages 1..n as the single-page flow parses a response
\* (lines 285-302), in page order
RECURSIVE ParsedAsSinglePage(_)
ParsedAsSinglePage(n) ==
    IF n = 0 THEN <<>>
    ELSE LET called == call_ollama_vision(Serving(responses[n]))
         IN  IF called.ok /\ ParseResponse(called.value).ok
             THEN Append(ParsedAsSinglePage(n - 1),
                         ParseResponse(called.value).value)
             ELSE ParsedAsSinglePage(n - 1)

\* C27 (as claimed): in the multi-page flow the merge input holds the result
\* of every page whose response the single-page procedure parses (direct
\* decode, then the brace-delimited substring): no such page is dropped.
PagesParsedAsSinglePage ==
    (IsMultiPage /\ Keys # {}) =>
        page_extractions = ParsedAsSinglePage(Len(responses))

\* C28: for a non-empty schema, every returned result that contains
\* extraction_results has under it a data mapping whose keys are exactly the
\* schema's keys, whatever the responses were and whichever path (single
\* page, multi-page, degraded) produced it.
DataHasSchemaKeys ==
    (pc = "returned" /\ Keys # {} /\ HasRecord) =>
        /\ IsDict(result.d.extraction_results)
        /\ "data" \in DOMAIN ResultBody
        /\ IsDict(ResultBody.data)
        /\ DOMAIN ResultData = Keys

\* C28 witness: schema {invoice_id}, a single page whose response holds
\* invoice_id and total: the returned data holds invoice_id alone.
DataHasSchemaKeysWitness ==
    /\ SinglePageReturned
    /\ Keys = {"invoice_id"}
    /\ responses = <<TwoFieldPage>>
    /\ ~HasError
    /\ ResultData = [k \in {"invoice_id"} |-> Str("INV-1")]

EmptyTextOnEveryPage ==
    \A i \in 1..Len(responses) : responses[i] = Reply(<<>>)

\* C29: in the multi-page flow a page whose call returned an empty text is
\* a processed page: its result, the empty object, is in the merge input.
\* A document of two pages or more whose every page returned an empty text
\* returns a record merged from all its pages, every schema field None, and
\* no error.
EmptyPagesAreMerged ==
    /\ (IsMultiPage /\ Keys # {}) =>
           \A i \in 1..Len(responses) :
               responses[i] = Reply(<<>>) =>
                   /\ Decoded(i)
                   /\ Len(DecodedPages(i)) \in 1..Len(page_extractions)
                   /\ page_extractions[Len(DecodedPages(i))] = EmptyDict
    /\ (MultiPageReturned /\ Len(responses) >= 2 /\ EmptyTextOnEveryPage) =>
           /\ ~HasError
           /\ HasRecord
           /\ ResultData = AllNone
           /\ ResultBody.reasoning.py = "fstr"
           /\ ResultBody.reasoning.parts[1] = "Merged from "
           /\ ResultBody.reasoning.parts[2] = Len(responses)

\* C29 witness: a document of two pages or more, every call returned an
\* empty text, and the request returned the merged record.
EmptyPagesAreMergedWitness ==
    /\ MultiPageReturned
    /\ Len(responses) >= 2
    /\ EmptyTextOnEveryPage
    /\ Len(page_extractions) = Len(responses)
    /\ ~HasError
    /\ ResultData = AllNone

====
